---- MODULE Spec2Model ----
(***************************************************************************)
(* MessageRetriever.get_latest_messages of azure_rag_demo.py: the          *)
(* simulated multi-source message aggregator that seeds the RAG demo.      *)
(*                                                                         *)
(* Time is counted in ticks of 10 minutes (every timedelta of the source   *)
(* is a multiple of 30 minutes).  datetime.now() is the variable clock: it *)
(* never goes back, and it may advance between any two reads, also inside  *)
(* one call.  The texts of the source are Chinese; the model carries an    *)
(* ASCII rendering of each.                                                *)
(***************************************************************************)
EXTENDS Integers, Sequences, FiniteSets

\* ---- bounds of the model ------------------------------------------------
\* the clock runs from 0 to MaxClock ticks
MaxClock == 5
\* the clock advances by at most MaxTick ticks between two reads
MaxTick == 2
\* hours_back is drawn from -1..MaxHoursBack, the default and twice the default
MaxHoursBack == 4
\* a loop is followed for MaxIterations iterations
MaxIterations == 3
\* a conversation holds at most MaxTurns question and answer pairs
MaxTurns == 2

\* ---- program constants --------------------------------------------------
\* def get_latest_messages(self, hours_back: int = 24, ...)
DefaultHoursBack == 24

\* timedelta(hours=h, minutes=m), in ticks
timedelta(hours, minutes) == (60 * hours + minutes) \div 10

HoursBackValues == (-1..MaxHoursBack) \cup {DefaultHoursBack, 2 * DefaultHoursBack}

\* categories: List[str] = None.  None and a list are told apart by is_none;
\* of a list only membership is ever used (msg["category"] in categories).
None == [is_none |-> TRUE, tags |-> {}]
List(tags) == [is_none |-> FALSE, tags |-> tags]
CategoryFilters ==
    { None, List({}), List({"nonexistent_tag"}),
      List({"technology", "finance"}),
      List({"business", "product", "feedback", "nonexistent_tag"}) }

VARIABLES
    clock,          \* datetime.now()
    data_sources,   \* self.data_sources, in insertion (= iteration) order
    pc,             \* "idle", "iterating", "returned" or "raised"
    hours_back,     \* argument of the call
    categories,     \* argument of the call
    call_now,       \* the value datetime.now() had on line 104
    cutoff_time,    \* local cutoff_time
    all_messages,   \* local all_messages; the returned list when pc = "returned"
    idx,            \* position of the for loop in data_sources.items()
    produced,       \* what the producers returned in this call, each record with the clock read that stamped it
    invoked,        \* how many times each producer was invoked in this call
    failed_source,  \* the source whose producer raised in this call
    prev,           \* the caller's copy of the previous result, for a back-to-back call
    \* the interactive loops (start_interactive_chat, start_chat)
    demo,           \* the class whose loop runs: "rag", "azure_chat" or "advanced"
    loop_pc,        \* "off", "reading" (at the top of while True) or "ended"
    ended_by,       \* what left the loop: "quit" or "KeyboardInterrupt"
    last,           \* the last iteration: the line, what was raised, what it did
    iterations,     \* the number of iterations so far
    \* AdvancedChatDemo: the instance of the running process, and the disk
    current_persona,\* self.current_persona
    memory,         \* self.memory.chat_memory.messages
    files,          \* the JSON files on disk, by name
    saved_from,     \* by file name, the persona and messages of the instance that last saved it
    adv_last,       \* the last operation on the instance: its name, argument and outcome
    \* AzureRAGDemo
    vector_store,   \* self.vector_store
    retriever,      \* self.retriever
    found_before,   \* some update_knowledge_base call so far found a message
    built_before,   \* some update_knowledge_base call so far built the vector store
    rag_last        \* the last call on the instance and what it returned

retrieverVars == << clock, data_sources, pc, hours_back, categories, call_now, cutoff_time,
                    all_messages, idx, produced, invoked, failed_source, prev >>

loopVars == << demo, loop_pc, ended_by, last, iterations >>

advVars == << current_persona, memory, files, saved_from, adv_last >>

ragVars == << vector_store, retriever, found_before, built_before, rag_last >>

otherVars == << loopVars, advVars, ragVars >>

notLoopVars == << retrieverVars, advVars, ragVars >>

notAdvVars == << retrieverVars, loopVars, ragVars >>

vars == << retrieverVars, otherVars >>

\* ---- the producers (lines 45-99) ----------------------------------------
\* t1, t2: the values of the producer's successive datetime.now() reads
_get_latest_news(t1, t2) ==
    << [title |-> "AI breakthrough", content |-> "new AI models set records",
        timestamp |-> t1 - timedelta(2, 0), source |-> "tech_news",
        category |-> "technology"],
       [title |-> "cloud market growth", content |-> "cloud market to grow 25%",
        timestamp |-> t2 - timedelta(1, 0), source |-> "business_news",
        category |-> "business"] >>

_get_company_updates(t1) ==
    << [title |-> "new product launch", content |-> "AI customer service platform",
        timestamp |-> t1 - timedelta(3, 0), source |-> "internal",
        category |-> "product"] >>

_get_market_data_future(t1) ==
    << [title |-> "stock market", content |-> "tech stocks up 2.5%",
        timestamp |-> t1 + timedelta(0, 30), source |-> "market_feed",
        category |-> "finance"] >>

_get_market_data(t1) ==
    << [title |-> "stock market", content |-> "tech stocks up 2.5%",
        timestamp |-> t1 - timedelta(0, 30), source |-> "market_feed",
        category |-> "finance"] >>

_get_user_messages(t1) ==
    << [title |-> "user feedback", content |-> "friendlier UI, more options wanted",
        timestamp |-> t1 - timedelta(4, 0), source |-> "user_feedback",
        category |-> "feedback"] >>

\* source_func(): the call of the producer bound to a key
source_func(func, t1, t2) ==
    CASE func = "_get_latest_news" -> _get_latest_news(t1, t2)
      [] func = "_get_company_updates" -> _get_company_updates(t1)
      [] func = "_get_market_data" -> _get_market_data(t1)
      [] func = "_get_user_messages" -> _get_user_messages(t1)

\* the number of datetime.now() reads a producer makes
ClockReads(func) == IF func = "_get_latest_news" THEN 2 ELSE 1

\* the producer's records, each with the clock read that stamped it
Stamped(messages, t1, t2) ==
    [i \in DOMAIN messages |-> [msg |-> messages[i], at |-> IF i = 1 THEN t1 ELSE t2]]

\* MessageRetriever.__init__: the registry
InitialSources ==
    << [name |-> "news", func |-> "_get_latest_news"],
       [name |-> "company_updates", func |-> "_get_company_updates"],
       [name |-> "market_data", func |-> "_get_market_data"],
       [name |-> "user_messages", func |-> "_get_user_messages"] >>

SourceNames == { InitialSources[i].name : i \in DOMAIN InitialSources }
NoSource == "-"
NoPrev == [valid |-> FALSE, now |-> 0, hours_back |-> 0, result |-> << >>]

\* ---- get_latest_messages (lines 101-115) --------------------------------
\* line 104
CutoffAhead(now, hb) == now + timedelta(hb, 0)

CutoffDays(now, hb) == now - timedelta(24 * hb, 0)

CutoffTime(now, hb) == now - timedelta(hb, 0)

\* lines 109-110
KeepStrict(msg, cutoff, cats) ==
    /\ msg.timestamp > cutoff
    /\ (cats.is_none \/ msg.category \in cats.tags)

KeepAnyCategory(msg, cutoff, cats) == msg.timestamp >= cutoff

Keep(msg, cutoff, cats) ==
    /\ msg.timestamp >= cutoff
    /\ (cats.is_none \/ msg.category \in cats.tags)

\* lines 108-111: the inner loop appends the kept records in order
Retain(messages, cutoff, cats) ==
    SelectSeq(messages, LAMBDA msg : Keep(msg, cutoff, cats))

\* line 114: list.sort(key = timestamp, reverse = True) is stable: records of
\* equal timestamp keep their order
RECURSIVE InsertByTime(_, _)
InsertByTime(msg, sorted) ==
    IF sorted = << >> THEN << msg >>
    ELSE IF Head(sorted).timestamp >= msg.timestamp
         THEN << Head(sorted) >> \o InsertByTime(msg, Tail(sorted))
         ELSE << msg >> \o sorted

RECURSIVE SortAscending(_)
SortAscending(msgs) ==
    IF msgs = << >> THEN << >>
    ELSE LET rest == SortAscending(Tail(msgs))
             older == SelectSeq(rest, LAMBDA m : m.timestamp < Head(msgs).timestamp)
             newer == SelectSeq(rest, LAMBDA m : m.timestamp >= Head(msgs).timestamp)
         IN older \o << Head(msgs) >> \o newer

RECURSIVE SortNewestFirst(_)
SortNewestFirst(msgs) ==
    IF msgs = << >> THEN << >>
    ELSE InsertByTime(msgs[Len(msgs)], SortNewestFirst(SubSeq(msgs, 1, Len(msgs) - 1)))

\* ---- the interactive loops ------------------------------------------------
\* A line of input is the sequence of its characters.  The two Chinese quit
\* words are written as their syllables: "tui","chu" and "zai","jian".
UpperCase == << "A", "B", "C", "D", "E", "F", "G", "H", "I", "J", "K", "L", "M",
                "N", "O", "P", "Q", "R", "S", "T", "U", "V", "W", "X", "Y", "Z" >>
LowerCase == << "a", "b", "c", "d", "e", "f", "g", "h", "i", "j", "k", "l", "m",
                "n", "o", "p", "q", "r", "s", "t", "u", "v", "w", "x", "y", "z" >>

\* str.lower()
lower(str) ==
    [i \in DOMAIN str |->
        IF \E k \in DOMAIN UpperCase : UpperCase[k] = str[i]
        THEN LowerCase[CHOOSE k \in DOMAIN UpperCase : UpperCase[k] = str[i]]
        ELSE str[i]]

\* str.strip()
RECURSIVE lstrip(_)
lstrip(str) ==
    IF str # << >> /\ Head(str) = " " THEN lstrip(Tail(str)) ELSE str

RECURSIVE rstrip(_)
rstrip(str) ==
    IF str # << >> /\ str[Len(str)] = " " THEN rstrip(SubSeq(str, 1, Len(str) - 1)) ELSE str

strip(str) == rstrip(lstrip(str))

\* str.startswith(prefix)
startswith(str, prefix) ==
    /\ Len(str) >= Len(prefix)
    /\ SubSeq(str, 1, Len(prefix)) = prefix

\* the lines typed at the prompt
InputLines ==
    { << >>,
      << " ", " " >>,
      << "q", "u", "i", "t" >>,
      << "E", "X", "I", "T" >>,
      << " ", "b", "y", "e", " " >>,
      << "tui", "chu" >>,
      << "zai", "jian" >>,
      << "u", "p", "d", "a", "t", "e" >>,
      << "U", "p", "d", "a", "t", "e" >>,
      << "c", "o", "n", "t", "e", "x", "t", " ", "q" >>,
      << "/", "d", "i", "r", "e", "c", "t", " ", "h", "i" >>,
      << "/", "q", "u", "i", "t" >>,
      << "/", "h", "e", "l", "p" >>,
      << "/", "p", "e", "r", "s", "o", "n", "a", "s" >>,
      << "/", "p", "e", "r", "s", "o", "n", "a", " ", "t", "e", "a", "c", "h", "e", "r" >>,
      << "/", "s", "a", "v", "e" >>,
      << "/", "l", "o", "a", "d", " ", "f" >>,
      << "/", "m", "e", "m", "o", "r", "y" >>,
      << "/", "c", "l", "e", "a", "r" >>,
      << "/", "n", "o", "p", "e" >>,
      << "h", "e", "l", "l", "o" >> }

Demos == {"rag", "azure_chat", "advanced"}
Raisable == {"none", "Exception", "KeyboardInterrupt"}

\* what an iteration does with the stripped line: "quit" (break), "none"
\* (continue at once) or the handler it calls
\* AzureRAGDemo.start_interactive_chat, lines 289-314
RagDispatch(user_input) ==
    IF lower(user_input) \in { << "q", "u", "i", "t" >>, << "e", "x", "i", "t" >>, << "b", "y", "e" >>, << "tui", "chu" >> }
    THEN "quit"
    ELSE IF user_input = << >> THEN "none"
    ELSE IF lower(user_input) = << "u", "p", "d", "a", "t", "e" >> THEN "update_knowledge_base"
    ELSE IF startswith(lower(user_input), << "c", "o", "n", "t", "e", "x", "t", " " >>) THEN "get_relevant_context"
    ELSE "chat_with_latest_info"

\* AzureChatDemo.start_chat, lines 104-121
AzureChatDispatch(user_input) ==
    IF lower(user_input) \in { << "q", "u", "i", "t" >>, << "e", "x", "i", "t" >>, << "b", "y", "e" >>, << "tui", "chu" >>, << "zai", "jian" >> }
    THEN "quit"
    ELSE IF user_input = << >> THEN "none"
    ELSE IF startswith(user_input, << "/", "d", "i", "r", "e", "c", "t", " " >>) THEN "direct_chat"
    ELSE "chat"

\* AdvancedChatDemo.start_chat, lines 197-252
AdvancedDispatch(user_input) ==
    IF startswith(user_input, << "/" >>)
    THEN IF user_input = << "/", "q", "u", "i", "t" >> THEN "quit"
         ELSE IF user_input = << "/", "h", "e", "l", "p" >> THEN "help"
         ELSE IF user_input = << "/", "p", "e", "r", "s", "o", "n", "a", "s" >> THEN "personas"
         ELSE IF startswith(user_input, << "/", "p", "e", "r", "s", "o", "n", "a", " " >>) THEN "switch_persona"
         ELSE IF startswith(user_input, << "/", "s", "a", "v", "e" >>) THEN "save_conversation"
         ELSE IF startswith(user_input, << "/", "l", "o", "a", "d", " " >>) THEN "load_conversation"
         ELSE IF user_input = << "/", "m", "e", "m", "o", "r", "y" >> THEN "show_memory_stats"
         ELSE IF user_input = << "/", "c", "l", "e", "a", "r" >> THEN "memory.clear"
         ELSE "unknown_command"
    ELSE IF user_input = << >> THEN "none"
    ELSE "chat"

Dispatch(d, user_input) ==
    CASE d = "rag" -> RagDispatch(user_input)
      [] d = "azure_chat" -> AzureChatDispatch(user_input)
      [] d = "advanced" -> AdvancedDispatch(user_input)

\* the handlers whose body is a try ... except Exception that returns the
\* error as the text to print
CatchesItself(handler) ==
    handler \in {"chat", "direct_chat", "save_conversation", "load_conversation"}

\* an iteration that loses the loop on an exception
OutcomeUncaught(handler, raised) ==
    [exit |-> IF raised = "none" \/ (raised = "Exception" /\ CatchesItself(handler))
              THEN "no" ELSE raised,
     called |-> handler,
     error_shown |-> IF raised = "Exception" /\ CatchesItself(handler) THEN "handler"
                     ELSE "none"]

\* the end of an iteration that called handler, raised being raised inside it:
\* except KeyboardInterrupt: break; except Exception: print and go on
Outcome(handler, raised) ==
    [exit |-> IF raised = "KeyboardInterrupt" THEN "KeyboardInterrupt" ELSE "no",
     called |-> handler,
     error_shown |-> IF raised # "Exception" THEN "none"
                     ELSE IF CatchesItself(handler) THEN "handler" ELSE "loop"]

\* one iteration of while True: input() raises read_raised or returns line
Step(d, line, read_raised, raised) ==
    IF read_raised = "KeyboardInterrupt"
    THEN [exit |-> "KeyboardInterrupt", called |-> "none", error_shown |-> "none"]
    ELSE IF read_raised = "Exception"
    THEN [exit |-> "no", called |-> "none", error_shown |-> "loop"]
    ELSE LET todo == Dispatch(d, strip(line))
         IN IF todo = "quit"
            THEN [exit |-> "quit", called |-> "none", error_shown |-> "none"]
            ELSE IF todo = "none"
            THEN [exit |-> "no", called |-> "none", error_shown |-> "none"]
            ELSE Outcome(todo, raised)

NoIteration ==
    [line |-> << >>, read_raised |-> "none", raised |-> "none",
     called |-> "none", error_shown |-> "none"]

InitLoop ==
    /\ demo = "rag"
    /\ loop_pc = "off"
    /\ ended_by = "no"
    /\ last = NoIteration
    /\ iterations = 0

\* ---- AdvancedChatDemo -----------------------------------------------------
\* the keys of self.personas
Personas == {"helpful_assistant", "creative_writer", "technical_expert", "teacher"}

\* what is typed after "/persona "
PersonaArgs == Personas \cup {"pirate", ""}

\* what the user asks, and what the model answers to it
UserMessages == {"q1", "q2"}
Reply(message) == IF message = "q1" THEN "a1" ELSE "a2"

HumanMessage(content) == [type |-> "human", content |-> content]
AIMessage(content) == [type |-> "ai", content |-> content]

\* the files: one the program writes, one that was on disk before, written
\* by something else and read-only
FileNames == {"saved.json", "foreign.json"}
NoFile == [exists |-> FALSE, persona |-> "", messages |-> << >>]
ForeignFile ==
    [exists |-> TRUE, persona |-> "pirate",
     messages |-> << [role |-> "user", content |-> "q1"],
                     [role |-> "system", content |-> "s"],
                     [role |-> "assistant", content |-> "a1"] >>]
Writable(filename) == filename # "foreign.json"

\* setup_conversation: a new, empty ConversationSummaryBufferMemory
EmptyMemory == << >>

\* switch_persona without the membership test
SwitchPersonaUnchecked(persona, cp, mem) ==
    [current_persona |-> persona, memory |-> EmptyMemory, result |-> "switched"]

\* switch_persona that sets up a new conversation only when the persona changes
SwitchPersonaLazy(persona, cp, mem) ==
    IF persona \in Personas
    THEN [current_persona |-> persona,
          memory |-> IF persona = cp THEN mem ELSE EmptyMemory,
          result |-> "switched"]
    ELSE [current_persona |-> cp, memory |-> mem, result |-> "unknown"]

\* switch_persona(persona) on an instance with persona cp and messages mem
SwitchPersona(persona, cp, mem) ==
    IF persona \in Personas
    THEN [current_persona |-> persona, memory |-> EmptyMemory, result |-> "switched"]
    ELSE [current_persona |-> cp, memory |-> mem, result |-> "unknown"]

\* save_conversation, lines 130-135: the messages as role/content entries
RECURSIVE ToEntries(_)
ToEntries(mem) ==
    IF mem = << >> THEN << >>
    ELSE LET rest == ToEntries(Tail(mem))
         IN IF Head(mem).type = "human"
            THEN << [role |-> "user", content |-> Head(mem).content] >> \o rest
            ELSE IF Head(mem).type = "ai"
            THEN << [role |-> "assistant", content |-> Head(mem).content] >> \o rest
            ELSE rest

\* load_conversation with the two roles taken for each other
RECURSIVE AddEntriesSwapped(_, _)
AddEntriesSwapped(mem, entries) ==
    IF entries = << >> THEN mem
    ELSE IF Head(entries).role = "user"
    THEN AddEntriesSwapped(Append(mem, AIMessage(Head(entries).content)), Tail(entries))
    ELSE IF Head(entries).role = "assistant"
    THEN AddEntriesSwapped(Append(mem, HumanMessage(Head(entries).content)), Tail(entries))
    ELSE AddEntriesSwapped(mem, Tail(entries))

\* load_conversation, lines 160-164: the entries added to the memory in order
RECURSIVE AddEntries(_, _)
AddEntries(mem, entries) ==
    IF entries = << >> THEN mem
    ELSE IF Head(entries).role = "user"
    THEN AddEntries(Append(mem, HumanMessage(Head(entries).content)), Tail(entries))
    ELSE IF Head(entries).role = "assistant"
    THEN AddEntries(Append(mem, AIMessage(Head(entries).content)), Tail(entries))
    ELSE AddEntries(mem, Tail(entries))

NoSnapshot == [saved |-> FALSE, persona |-> "", memory |-> << >>]

\* AdvancedChatDemo(): main() builds the instance with the default persona
InitAdvanced ==
    /\ current_persona = "helpful_assistant"
    /\ memory = EmptyMemory
    /\ files = [f \in FileNames |-> IF f = "foreign.json" THEN ForeignFile ELSE NoFile]
    /\ saved_from = [f \in FileNames |-> NoSnapshot]
    /\ adv_last = [op |-> "__init__", arg |-> "helpful_assistant", ok |-> TRUE]

\* ---- AzureRAGDemo ----------------------------------------------------------
\* get_latest_messages as one call: the cutoff from the clock read t0, every
\* producer reading the clock at t
RECURSIVE CollectFrom(_, _, _, _, _)
CollectFrom(sources, i, t, cutoff, cats) ==
    IF i > Len(sources) THEN << >>
    ELSE Retain(source_func(sources[i].func, t, t), cutoff, cats)
             \o CollectFrom(sources, i + 1, t, cutoff, cats)

GetLatestMessages(sources, hb, cats, t0, t) ==
    SortNewestFirst(CollectFrom(sources, 1, t, CutoffTime(t0, hb), cats))

\* lines 209-227: one Document per message (the texts are far shorter than a
\* chunk, so the splitter leaves one chunk per document, starting at 0)
ToDocument(msg) ==
    [page_content |-> << "title", msg.title, "content", msg.content >>,
     metadata |-> [title |-> msg.title, timestamp |-> << "iso", msg.timestamp >>,
                   source |-> msg.source, category |-> msg.category,
                   start_index |-> 0]]

ToDocuments(messages) == [i \in DOMAIN messages |-> ToDocument(messages[i])]

\* self.vector_store = None, self.retriever = None
NoStore == [built |-> FALSE, documents |-> << >>]

\* Chroma.from_documents(...) and its as_retriever(...)
BuiltStore(documents) == [built |-> TRUE, documents |-> documents]

InitRag ==
    /\ vector_store = NoStore
    /\ retriever = NoStore
    /\ found_before = FALSE
    /\ built_before = FALSE
    /\ rag_last = [op |-> "__init__", found |-> 0, returned |-> "none",
                   model_invoked |-> FALSE]

InitRetriever ==
    /\ clock = 0
    /\ data_sources = InitialSources
    /\ pc = "idle"
    /\ hours_back = DefaultHoursBack
    /\ categories = None
    /\ call_now = 0
    /\ cutoff_time = 0
    /\ all_messages = << >>
    /\ idx = 1
    /\ produced = << >>
    /\ invoked = [s \in SourceNames |-> 0]
    /\ failed_source = NoSource
    /\ prev = NoPrev

Init == InitRetriever /\ InitLoop /\ InitAdvanced /\ InitRag

\* lines 101-104: the call starts d ticks after the last step
BeginKeepList(hb, cats, d, again) ==
    /\ clock + d <= MaxClock
    /\ clock' = clock + d
    /\ hours_back' = hb
    /\ categories' = cats
    /\ call_now' = clock'
    /\ cutoff_time' = CutoffTime(clock', hb)
    /\ UNCHANGED all_messages
    /\ idx' = 1
    /\ pc' = "iterating"
    /\ produced' = << >>
    /\ invoked' = [s \in SourceNames |-> 0]
    /\ failed_source' = NoSource
    /\ prev' = IF again THEN [valid |-> TRUE, now |-> call_now, hours_back |-> hours_back,
                              result |-> all_messages]
               ELSE NoPrev
    /\ UNCHANGED data_sources
    /\ UNCHANGED otherVars

Begin(hb, cats, d, again) ==
    /\ clock + d <= MaxClock
    /\ clock' = clock + d
    /\ hours_back' = hb
    /\ categories' = cats
    /\ call_now' = clock'
    /\ cutoff_time' = CutoffTime(clock', hb)
    /\ all_messages' = << >>
    /\ idx' = 1
    /\ pc' = "iterating"
    /\ produced' = << >>
    /\ invoked' = [s \in SourceNames |-> 0]
    /\ failed_source' = NoSource
    /\ prev' = IF again THEN [valid |-> TRUE, now |-> call_now, hours_back |-> hours_back,
                              result |-> all_messages]
               ELSE NoPrev
    /\ UNCHANGED data_sources
    /\ UNCHANGED otherVars

\* a call of get_latest_messages with any arguments
Call ==
    /\ pc \in {"idle", "returned", "raised"}
    /\ \E hb \in HoursBackValues, cats \in CategoryFilters, d \in 0..MaxTick :
           Begin(hb, cats, d, FALSE)

\* the caller keeps the list it got and calls again with the same arguments,
\* the first call having seen no clock advance
BackToBackCall ==
    /\ pc = "returned"
    /\ clock = call_now
    /\ \E d \in 0..MaxTick : Begin(hours_back, categories, d, TRUE)

\* lines 106-111, one iteration of the outer loop, the cutoff taken again from
\* the clock at the iteration
InvokeOwnCutoff ==
    /\ pc = "iterating"
    /\ idx <= Len(data_sources)
    /\ LET src == data_sources[idx] IN
       \E d1 \in 0..MaxTick, d2 \in 0..(IF ClockReads(src.func) = 2 THEN MaxTick ELSE 0) :
          LET t1 == clock + d1
              t2 == t1 + d2
              messages == source_func(src.func, t1, t2)
          IN /\ t2 <= MaxClock
             /\ clock' = t2
             /\ cutoff_time' = CutoffTime(t1, hours_back)
             /\ all_messages' = all_messages \o Retain(messages, cutoff_time', categories)
             /\ produced' = produced \o Stamped(messages, t1, t2)
             /\ invoked' = [invoked EXCEPT ![src.name] = @ + 1]
    /\ idx' = idx + 1
    /\ UNCHANGED << data_sources, pc, hours_back, categories, call_now,
                    failed_source, prev, otherVars >>

\* the same, the registry entry rebound to a cache of what the producer returned
InvokeAndCache ==
    /\ pc = "iterating"
    /\ idx <= Len(data_sources)
    /\ LET src == data_sources[idx] IN
       \E d1 \in 0..MaxTick, d2 \in 0..(IF ClockReads(src.func) = 2 THEN MaxTick ELSE 0) :
          LET t1 == clock + d1
              t2 == t1 + d2
              messages == source_func(src.func, t1, t2)
          IN /\ t2 <= MaxClock
             /\ clock' = t2
             /\ all_messages' = all_messages \o Retain(messages, cutoff_time, categories)
             /\ produced' = produced \o Stamped(messages, t1, t2)
             /\ invoked' = [invoked EXCEPT ![src.name] = @ + 1]
    /\ data_sources' = [data_sources EXCEPT ![idx].func = "cached"]
    /\ idx' = idx + 1
    /\ UNCHANGED << pc, hours_back, categories, call_now, cutoff_time,
                    failed_source, prev, otherVars >>

\* lines 106-111, one iteration of the outer loop: the producer of the next
\* source is invoked (the clock may advance before each of its reads) and the
\* inner loop appends the records it keeps
Invoke ==
    /\ pc = "iterating"
    /\ idx <= Len(data_sources)
    /\ LET src == data_sources[idx] IN
       \E d1 \in 0..MaxTick, d2 \in 0..(IF ClockReads(src.func) = 2 THEN MaxTick ELSE 0) :
          LET t1 == clock + d1
              t2 == t1 + d2
              messages == source_func(src.func, t1, t2)
          IN /\ t2 <= MaxClock
             /\ clock' = t2
             /\ all_messages' = all_messages \o Retain(messages, cutoff_time, categories)
             /\ produced' = produced \o Stamped(messages, t1, t2)
             /\ invoked' = [invoked EXCEPT ![src.name] = @ + 1]
    /\ idx' = idx + 1
    /\ UNCHANGED << data_sources, pc, hours_back, categories, call_now, cutoff_time,
                    failed_source, prev, otherVars >>

\* lines 113-115: the loop is over, the list is sorted and returned
Return ==
    /\ pc = "iterating"
    /\ idx > Len(data_sources)
    /\ all_messages' = SortNewestFirst(all_messages)
    /\ pc' = "returned"
    /\ UNCHANGED << clock, data_sources, hours_back, categories, call_now, cutoff_time,
                    idx, produced, invoked, failed_source, prev, otherVars >>

\* line 107 with the failing source skipped and the loop going on
ProducerRaisesSkipped ==
    /\ pc = "iterating"
    /\ idx <= Len(data_sources)
    /\ invoked' = [invoked EXCEPT ![data_sources[idx].name] = @ + 1]
    /\ failed_source' = data_sources[idx].name
    /\ idx' = idx + 1
    /\ UNCHANGED << clock, data_sources, pc, hours_back, categories, call_now,
                    cutoff_time, all_messages, produced, prev, otherVars >>

\* line 107: source_func() raises.  Nothing in get_latest_messages catches it:
\* the call ends there and the exception goes to the caller
ProducerRaises ==
    /\ pc = "iterating"
    /\ idx <= Len(data_sources)
    /\ invoked' = [invoked EXCEPT ![data_sources[idx].name] = @ + 1]
    /\ failed_source' = data_sources[idx].name
    /\ pc' = "raised"
    /\ UNCHANGED << clock, data_sources, hours_back, categories, call_now,
                    cutoff_time, all_messages, idx, produced, prev, otherVars >>

\* the caller keeps the list it got and calls again at once with a wider
\* window and the same categories, the first call having seen no clock advance
WidenedCall ==
    /\ pc = "returned"
    /\ clock = call_now
    /\ \E hb \in HoursBackValues :
           /\ hb > hours_back
           /\ Begin(hb, categories, 0, TRUE)

Next == Call \/ BackToBackCall \/ Invoke \/ Return

\* the program as written: its producers never raise
Spec == Init /\ [][Next]_vars

NextWiden == Call \/ WidenedCall \/ Invoke \/ Return

\* the program called again with a wider window
SpecWiden == Init /\ [][NextWiden]_vars

NextRaise == Next \/ ProducerRaises

\* the program with producers that may raise
SpecRaise == Init /\ [][NextRaise]_vars

\* ---- the interactive loops: actions ----------------------------------------
\* start_interactive_chat / start_chat is entered
StartLoop ==
    /\ loop_pc = "off"
    /\ \E d \in Demos : demo' = d
    /\ loop_pc' = "reading"
    /\ UNCHANGED << ended_by, last, iterations, notLoopVars >>

\* one iteration of the while True of the running loop
LoopIteration ==
    /\ loop_pc = "reading"
    /\ iterations < MaxIterations
    /\ \E line \in InputLines, read_raised \in Raisable, raised \in Raisable :
          LET r == Step(demo, line, read_raised, raised)
          IN /\ read_raised # "none" => (line = << >> /\ raised = "none")
             /\ r.called = "none" => raised = "none"
             /\ last' = [line |-> line, read_raised |-> read_raised, raised |-> raised,
                         called |-> r.called, error_shown |-> r.error_shown]
             /\ loop_pc' = IF r.exit = "no" THEN "reading" ELSE "ended"
             /\ ended_by' = r.exit
    /\ iterations' = iterations + 1
    /\ UNCHANGED << demo, notLoopVars >>

NextLoop == StartLoop \/ LoopIteration

\* the three interactive loops
SpecLoop == Init /\ [][NextLoop]_vars

\* ---- AdvancedChatDemo: actions ----------------------------------------------
\* a new process: main() builds a new instance; the disk stays
NewInstance ==
    /\ current_persona' = "helpful_assistant"
    /\ memory' = EmptyMemory
    /\ adv_last' = [op |-> "__init__", arg |-> "helpful_assistant", ok |-> TRUE]
    /\ UNCHANGED << files, saved_from, notAdvVars >>

\* chat(message): predict answers and the memory takes the pair, or predict
\* raises and chat returns the error text
ChatTurn ==
    /\ Len(memory) + 2 <= 2 * MaxTurns
    /\ \E message \in UserMessages, ok \in BOOLEAN :
          /\ memory' = IF ok
                       THEN memory \o << HumanMessage(message), AIMessage(Reply(message)) >>
                       ELSE memory
          /\ adv_last' = [op |-> "chat", arg |-> message, ok |-> ok]
    /\ UNCHANGED << current_persona, files, saved_from, notAdvVars >>

\* "/persona <name>": switch_persona(name)
SwitchPersonaCommand ==
    /\ \E persona \in PersonaArgs :
          LET after == SwitchPersona(persona, current_persona, memory)
          IN /\ current_persona' = after.current_persona
             /\ memory' = after.memory
             /\ adv_last' = [op |-> "switch_persona", arg |-> persona,
                             ok |-> after.result = "switched"]
    /\ UNCHANGED << files, saved_from, notAdvVars >>

\* "/clear": self.memory.clear()
ClearCommand ==
    /\ memory' = EmptyMemory
    /\ adv_last' = [op |-> "clear", arg |-> "", ok |-> TRUE]
    /\ UNCHANGED << current_persona, files, saved_from, notAdvVars >>

\* save_conversation(filename): the file is written, or open() raises and the
\* error text is returned
SaveConversation ==
    /\ \E filename \in FileNames, io_ok \in BOOLEAN :
          LET ok == io_ok /\ Writable(filename)
          IN /\ files' = IF ok
                         THEN [files EXCEPT ![filename] =
                                  [exists |-> TRUE, persona |-> current_persona,
                                   messages |-> ToEntries(memory)]]
                         ELSE files
             /\ saved_from' = IF ok
                              THEN [saved_from EXCEPT ![filename] =
                                       [saved |-> TRUE, persona |-> current_persona,
                                        memory |-> memory]]
                              ELSE saved_from
             /\ adv_last' = [op |-> "save_conversation", arg |-> filename, ok |-> ok]
    /\ UNCHANGED << current_persona, memory, notAdvVars >>

\* load_conversation(filename): open() raises for a missing file; else the
\* persona of the file is switched to and its entries are added (the guard
\* keeps the memory within MaxTurns pairs when it is added to, not replaced)
LoadConversation ==
    /\ \E filename \in FileNames :
          IF ~ files[filename].exists
          THEN /\ adv_last' = [op |-> "load_conversation", arg |-> filename, ok |-> FALSE]
               /\ UNCHANGED << current_persona, memory >>
          ELSE LET after == SwitchPersona(files[filename].persona, current_persona, memory)
               IN /\ Len(after.memory) + Len(files[filename].messages) <= 2 * MaxTurns + 1
                  /\ current_persona' = after.current_persona
                  /\ memory' = AddEntries(after.memory, files[filename].messages)
                  /\ adv_last' = [op |-> "load_conversation", arg |-> filename, ok |-> TRUE]
    /\ UNCHANGED << files, saved_from, notAdvVars >>

NextAdvanced ==
    \/ NewInstance
    \/ ChatTurn
    \/ SwitchPersonaCommand
    \/ ClearCommand
    \/ SaveConversation
    \/ LoadConversation

\* AdvancedChatDemo, one process after the other on the same disk
SpecAdvanced == Init /\ [][NextAdvanced]_vars

\* ---- AzureRAGDemo: actions ---------------------------------------------------
\* update_knowledge_base that forgets the knowledge base when no message is found
UpdateKnowledgeBaseClearing ==
    /\ \E hb \in HoursBackValues, cats \in CategoryFilters, d \in 0..MaxTick,
          embedded \in BOOLEAN :
          LET latest_messages == GetLatestMessages(data_sources, hb, cats, clock, clock + d)
              found == latest_messages # << >>
          IN /\ clock + d <= MaxClock
             /\ clock' = clock + d
             /\ found_before' = (found_before \/ found)
             /\ built_before' = (built_before \/ (found /\ embedded))
             /\ vector_store' = IF found /\ embedded
                                THEN BuiltStore(ToDocuments(latest_messages))
                                ELSE IF found THEN vector_store ELSE NoStore
             /\ retriever' = IF found /\ embedded
                             THEN BuiltStore(ToDocuments(latest_messages))
                             ELSE IF found THEN retriever ELSE NoStore
             /\ rag_last' = [op |-> "update_knowledge_base", found |-> Len(latest_messages),
                             returned |-> IF found /\ ~ embedded THEN "raised" ELSE "none",
                             model_invoked |-> FALSE]
    /\ UNCHANGED << data_sources, pc, hours_back, categories, call_now, cutoff_time,
                    all_messages, idx, produced, invoked, failed_source, prev,
                    loopVars, advVars >>

\* update_knowledge_base(hours_back, categories): the clock advances by d
\* between the cutoff and the producers; with no message it returns at once;
\* else the vector store and the retriever are built, unless embedding the
\* documents raises, which leaves both as they were
UpdateKnowledgeBase ==
    /\ \E hb \in HoursBackValues, cats \in CategoryFilters, d \in 0..MaxTick,
          embedded \in BOOLEAN :
          LET latest_messages == GetLatestMessages(data_sources, hb, cats, clock, clock + d)
              found == latest_messages # << >>
          IN /\ clock + d <= MaxClock
             /\ clock' = clock + d
             /\ found_before' = (found_before \/ found)
             /\ built_before' = (built_before \/ (found /\ embedded))
             /\ vector_store' = IF found /\ embedded
                                THEN BuiltStore(ToDocuments(latest_messages))
                                ELSE vector_store
             /\ retriever' = IF found /\ embedded
                             THEN BuiltStore(ToDocuments(latest_messages))
                             ELSE retriever
             /\ rag_last' = [op |-> "update_knowledge_base", found |-> Len(latest_messages),
                             returned |-> IF found /\ ~ embedded THEN "raised" ELSE "none",
                             model_invoked |-> FALSE]
    /\ UNCHANGED << data_sources, pc, hours_back, categories, call_now, cutoff_time,
                    all_messages, idx, produced, invoked, failed_source, prev,
                    loopVars, advVars >>

\* chat_with_latest_info(question): the fixed text without a retriever; else
\* the retrieval chain is invoked, and answers or raises
ChatWithLatestInfo ==
    /\ \E answered \in BOOLEAN :
          rag_last' = IF ~ retriever.built
                      THEN [op |-> "chat_with_latest_info", found |-> 0,
                            returned |-> "call update_knowledge_base first",
                            model_invoked |-> FALSE]
                      ELSE [op |-> "chat_with_latest_info", found |-> 0,
                            returned |-> IF answered THEN "answer" ELSE "raised",
                            model_invoked |-> TRUE]
    /\ UNCHANGED << vector_store, retriever, found_before, built_before,
                    retrieverVars, loopVars, advVars >>

\* get_relevant_context(question): [] without a retriever; else the documents
\* the retriever finds (at most k = 3), or its exception
GetRelevantContext ==
    /\ \E retrieved \in BOOLEAN :
          rag_last' = IF ~ retriever.built
                      THEN [op |-> "get_relevant_context", found |-> 0,
                            returned |-> "[]", model_invoked |-> FALSE]
                      ELSE [op |-> "get_relevant_context", found |-> 0,
                            returned |-> IF retrieved THEN "documents" ELSE "raised",
                            model_invoked |-> FALSE]
    /\ UNCHANGED << vector_store, retriever, found_before, built_before,
                    retrieverVars, loopVars, advVars >>

NextRag == UpdateKnowledgeBase \/ ChatWithLatestInfo \/ GetRelevantContext

\* AzureRAGDemo called in any order
SpecRag == Init /\ [][NextRag]_vars

\* ---- properties ----------------------------------------------------------
Range(seq) == { seq[i] : i \in DOMAIN seq }
Count(r, seq) == Cardinality({ i \in DOMAIN seq : seq[i] = r })
ProducedMsgs == [i \in DOMAIN produced |-> produced[i].msg]

\* the window and the category condition as the specification words them, on
\* the arguments and the clock read at the start of the call
InWindow(r) == r.timestamp >= call_now - timedelta(hours_back, 0)
InCategories(r) == categories.is_none \/ r.category \in categories.tags

\* C1: the returned list is sorted by timestamp non-increasing: a.timestamp >=
\* b.timestamp for every adjacent pair (a, b).
C1_SortedNewestFirst ==
    pc = "returned" =>
        \A i \in 1..(Len(all_messages) - 1) :
            all_messages[i].timestamp >= all_messages[i + 1].timestamp

\* a returned list of three or more records that were not collected in that
\* order, the clock having advanced during the call
C1_Witness ==
    /\ pc = "returned"
    /\ Len(all_messages) >= 3
    /\ clock > call_now
    /\ all_messages # SelectSeq(ProducedMsgs, LAMBDA r : InWindow(r) /\ InCategories(r))

\* C2: the returned list holds exactly the produced records with timestamp >=
\* cutoff and (categories is None or category in categories), each as many
\* times as it was produced; timestamp = cutoff is included.
C2_ExactlyTheQualifying ==
    pc = "returned" =>
        \A r \in Range(ProducedMsgs) \cup Range(all_messages) :
            Count(r, all_messages) =
                IF InWindow(r) /\ InCategories(r) THEN Count(r, ProducedMsgs) ELSE 0

\* a returned list with a record stamped exactly at the cutoff, others dropped
C2_Witness ==
    /\ pc = "returned"
    /\ \E i \in DOMAIN all_messages :
           all_messages[i].timestamp = call_now - timedelta(hours_back, 0)
    /\ Len(all_messages) < Len(produced)

\* C3: no returned record is older than now - hours_back, now being the clock
\* read at the start of the call.
C3_NoneOlderThanWindow ==
    pc = "returned" =>
        \A i \in DOMAIN all_messages :
            ~ (all_messages[i].timestamp < call_now - timedelta(hours_back, 0))

\* a non-empty returned list of a call that produced an older record, the clock
\* having advanced during the call
C3_Witness ==
    /\ pc = "returned"
    /\ all_messages # << >>
    /\ clock > call_now
    /\ \E i \in DOMAIN produced :
           produced[i].msg.timestamp < call_now - timedelta(hours_back, 0)

\* C4: with a list of categories every returned record has its category in the
\* list, so a list of tags no source produces gives an empty result; with None
\* no record of the window is left out.
C4_CategoryIntersection ==
    pc = "returned" =>
        /\ ~ categories.is_none =>
               \A i \in DOMAIN all_messages : all_messages[i].category \in categories.tags
        /\ ( /\ ~ categories.is_none
             /\ categories.tags \cap { r.category : r \in Range(ProducedMsgs) } = {} )
               => all_messages = << >>
        /\ categories.is_none =>
               \A r \in Range(ProducedMsgs) : InWindow(r) => r \in Range(all_messages)

\* a filtered, non-empty returned list, a record of the window left out for its
\* category
C4_Witness ==
    /\ pc = "returned"
    /\ ~ categories.is_none
    /\ all_messages # << >>
    /\ \E r \in Range(ProducedMsgs) : InWindow(r) /\ r.category \notin categories.tags

\* C5: a call with hours_back <= 0 fails with InvalidArgument instead of
\* returning a list.
C5_NonPositiveRejected == hours_back <= 0 => pc # "returned"

\* C6: when a producer raises, the aggregation is aborted: the call ends with
\* the exception, no later source is invoked and no list is returned, whatever
\* the position of the failing source.
C6_RaiseAborts ==
    failed_source # NoSource =>
        /\ pc = "raised"
        /\ data_sources[idx].name = failed_source
        /\ \A i \in DOMAIN data_sources : i > idx => invoked[data_sources[i].name] = 0

\* the last producer raises after records of earlier sources were collected
C6_Witness ==
    /\ pc = "raised"
    /\ idx = Len(data_sources)
    /\ all_messages # << >>

\* C7: the cutoff is the one computed from the clock read at the start of the
\* call, through the whole call, and every produced record is kept or dropped
\* against it, whatever the clock was when its producer ran.
C7_OneCutoffPerCall ==
    pc \in {"iterating", "returned"} =>
        /\ cutoff_time = call_now - timedelta(hours_back, 0)
        /\ \A i \in DOMAIN produced :
               (produced[i].msg \in Range(all_messages))
                   <=> (produced[i].msg.timestamp >= cutoff_time /\ InCategories(produced[i].msg))

\* a returned record that was stamped after the clock advanced and is older
\* than hours_back at its own producer's clock read
C7_Witness ==
    /\ pc = "returned"
    /\ \E i \in DOMAIN produced :
           /\ produced[i].at > call_now
           /\ produced[i].msg \in Range(all_messages)
           /\ produced[i].msg.timestamp < produced[i].at - timedelta(hours_back, 0)

\* C8: a call made back to back with the same arguments, the clock not having
\* advanced since the first call began, returns the same sequence of records.
C8_BackToBackEqual ==
    (pc = "returned" /\ prev.valid /\ clock = prev.now /\ hours_back = prev.hours_back)
        => all_messages = prev.result

\* the second of two such calls, returning two or more records
C8_Witness ==
    /\ pc = "returned"
    /\ prev.valid
    /\ clock = prev.now
    /\ hours_back = prev.hours_back
    /\ Len(all_messages) >= 2

\* C9: the registry is as __init__ left it, no producer is invoked twice in a
\* call, and a call that returns has invoked every producer once, whatever
\* the filters.
C9_NoSideEffect ==
    /\ data_sources = InitialSources
    /\ \A s \in SourceNames : invoked[s] <= 1
    /\ pc = "returned" =>
           /\ \A i \in DOMAIN data_sources : invoked[data_sources[i].name] = 1
           /\ Len(produced) = 5

\* a second call that returns nothing for an empty list of categories
C9_Witness ==
    /\ pc = "returned"
    /\ prev.valid
    /\ categories = List({})
    /\ all_messages = << >>
    /\ \A s \in SourceNames : invoked[s] = 1

\* C10, as claimed: no returned record is stamped later than the clock read
\* at the start of the call.
C10_NotAfterCallTime ==
    pc = "returned" =>
        \A i \in DOMAIN all_messages : all_messages[i].timestamp <= call_now

\* C10, amended: every returned record is one a producer made, stamped within
\* the window and at least 30 minutes before the clock value its producer
\* read, which is not after the clock value at the return; hence it is not
\* stamped after the call time when the clock advanced by at most 30 minutes
\* during the call.
C10_WithinWindowAtReturn ==
    pc = "returned" =>
        /\ Range(all_messages) \subseteq Range(ProducedMsgs)
        /\ \A i \in DOMAIN produced :
               produced[i].msg \in Range(all_messages) =>
                   /\ call_now - timedelta(hours_back, 0) <= produced[i].msg.timestamp
                   /\ produced[i].msg.timestamp + timedelta(0, 30) <= produced[i].at
                   /\ produced[i].at <= clock
                   /\ clock - call_now <= timedelta(0, 30)
                          => produced[i].msg.timestamp <= call_now

\* a returned record stamped after the call time
C10_Witness ==
    /\ pc = "returned"
    /\ \E i \in DOMAIN all_messages : all_messages[i].timestamp > call_now

\* s is t with some of its elements left out
RECURSIVE IsSubsequence(_, _)
IsSubsequence(s, t) ==
    IF s = << >> THEN TRUE
    ELSE IF t = << >> THEN FALSE
    ELSE IF Head(s) = Head(t) THEN IsSubsequence(Tail(s), Tail(t))
    ELSE IsSubsequence(s, Tail(t))

\* C11: widening the window only adds records: with the same clock and
\* categories, the result for H1 is a subsequence of the result for H2 >= H1;
\* and a produced record of the categories is returned exactly when its age
\* at the call time is at most hours_back.
C11_WiderWindowOnlyAdds ==
    pc = "returned" =>
        /\ (prev.valid /\ clock = prev.now /\ prev.hours_back <= hours_back)
               => IsSubsequence(prev.result, all_messages)
        /\ \A r \in Range(ProducedMsgs) :
               InCategories(r) =>
                   (r \in Range(all_messages)
                        <=> call_now - r.timestamp <= timedelta(hours_back, 0))

\* the second of two calls at the same clock, with a wider window: it returns
\* the records of the first and, after them, older ones
C11_Witness ==
    /\ pc = "returned"
    /\ prev.valid
    /\ clock = prev.now
    /\ prev.hours_back < hours_back
    /\ Len(prev.result) >= 2
    /\ Len(all_messages) > Len(prev.result)
    /\ SubSeq(all_messages, 1, Len(prev.result)) = prev.result

\* the quit commands of each loop
QuitCommand(d, line) ==
    IF d = "advanced" THEN strip(line) = << "/", "q", "u", "i", "t" >>
    ELSE \/ lower(strip(line)) \in { << "q", "u", "i", "t" >>, << "e", "x", "i", "t" >>,
                                     << "b", "y", "e" >>, << "tui", "chu" >> }
         \/ d = "azure_chat" /\ lower(strip(line)) = << "zai", "jian" >>

LastRaised(kind) ==
    last.read_raised = kind \/ (last.called # "none" /\ last.raised = kind)

\* C12: in each loop an exception other than KeyboardInterrupt, raised while
\* reading or handling an input, is caught and printed and the loop reads on;
\* the loop ends exactly on a quit command or a KeyboardInterrupt; an empty
\* line calls nothing.
C12_LoopSurvivesExceptions ==
    iterations > 0 =>
        /\ LastRaised("Exception") => (last.error_shown # "none" /\ loop_pc = "reading")
        /\ loop_pc = "ended" <=>
               \/ LastRaised("KeyboardInterrupt")
               \/ last.read_raised = "none" /\ QuitCommand(demo, last.line)
        /\ loop_pc = "ended" =>
               ended_by = IF LastRaised("KeyboardInterrupt") THEN "KeyboardInterrupt" ELSE "quit"
        /\ (last.read_raised = "none" /\ strip(last.line) = << >>)
               => (last.called = "none" /\ loop_pc = "reading")

\* the RAG loop reading on, in a later iteration, after its except Exception
\* printed what a handler raised
C12_Witness ==
    /\ demo = "rag"
    /\ iterations >= 2
    /\ loop_pc = "reading"
    /\ last.called = "update_knowledge_base"
    /\ last.raised = "Exception"
    /\ last.error_shown = "loop"

\* the user and assistant messages of a memory
HumanAndAI(mem) == SelectSeq(mem, LAMBDA m : m.type \in {"human", "ai"})

\* C13: load_conversation(f) of a file that save_conversation(f) wrote, on the
\* saving instance or a later one whatever its persona and history, leaves
\* current_persona the saved persona and the memory the saved user and
\* assistant messages, in order and with their contents, and nothing else.
C13_SaveLoadRoundTrip ==
    ( /\ adv_last.op = "load_conversation"
      /\ adv_last.ok
      /\ saved_from[adv_last.arg].saved )
        => /\ current_persona = saved_from[adv_last.arg].persona
           /\ memory = HumanAndAI(saved_from[adv_last.arg].memory)

\* a load that brought back two saved turns and the saved persona
C13_Witness ==
    /\ adv_last.op = "load_conversation"
    /\ adv_last.ok
    /\ saved_from[adv_last.arg].saved
    /\ Len(memory) = 4
    /\ memory[1].content # memory[3].content
    /\ current_persona = "teacher"

\* without a retriever the two query methods answer at once, the model not
\* invoked
AnswersWithoutRetriever ==
    ~ retriever.built =>
        /\ rag_last.op = "chat_with_latest_info" =>
               (rag_last.returned = "call update_knowledge_base first"
                    /\ ~ rag_last.model_invoked)
        /\ rag_last.op = "get_relevant_context" =>
               (rag_last.returned = "[]" /\ ~ rag_last.model_invoked)

\* C14, as claimed: retriever is not None exactly when an earlier
\* update_knowledge_base call found a message; without a retriever the query
\* methods return the fixed text and the empty list.
C14_RetrieverIffFound ==
    /\ retriever.built <=> found_before
    /\ AnswersWithoutRetriever

\* C14, amended: retriever is not None exactly when an earlier
\* update_knowledge_base call found a message and built the vector store
\* without raising; an update that finds no message, or that raises, leaves
\* vector_store and retriever as they were; without a retriever the query
\* methods return the fixed text and the empty list.
C14_RetrieverIffBuilt ==
    /\ [](/\ retriever.built <=> built_before
          /\ built_before => found_before
          /\ vector_store.built <=> retriever.built
          /\ AnswersWithoutRetriever)
    /\ [][ ( /\ rag_last'.op = "update_knowledge_base"
             /\ rag_last'.found = 0 \/ rag_last'.returned = "raised" )
               => UNCHANGED << vector_store, retriever >> ]_vars

\* an update that found nothing, a knowledge base built earlier still there
C14_Witness ==
    /\ rag_last.op = "update_knowledge_base"
    /\ rag_last.found = 0
    /\ retriever.built
    /\ Len(retriever.documents) >= 2

\* C15: switch_persona(p) with p not a key of personas changes neither
\* current_persona nor the memory and reports an unknown persona; with p a key
\* it sets current_persona to p and replaces the memory by an empty one, also
\* when p is already current; so current_persona is always a key of personas.
C15_SwitchPersonaChecked ==
    /\ [](current_persona \in Personas)
    /\ [][ adv_last'.op = "switch_persona" =>
             IF adv_last'.arg \in Personas
             THEN /\ current_persona' = adv_last'.arg
                  /\ memory' = EmptyMemory
                  /\ adv_last'.ok
             ELSE /\ current_persona' = current_persona
                  /\ memory' = memory
                  /\ ~ adv_last'.ok ]_vars

\* an unknown persona refused in the middle of a conversation, after an
\* earlier switch
C15_Witness ==
    /\ adv_last.op = "switch_persona"
    /\ adv_last.arg \notin Personas
    /\ ~ adv_last.ok
    /\ memory # EmptyMemory
    /\ current_persona # "helpful_assistant"

====
